---- MODULE Spec2Model ----
(***************************************************************************)
(* Model of genome_tree_tk/markers/consistencyTest.py (ConsistencyTest.run *)
(* and ConsistencyTest.__genomeId): the taxonomic consistency of gene      *)
(* trees and the retain/filter decision taken from it.                     *)
(*                                                                         *)
(* Strings the code inspects character by character (leaf labels, file     *)
(* names) are sequences of one-character strings.  Taxon labels are only   *)
(* compared and sorted, and are TLA+ strings.                              *)
(*                                                                         *)
(* A score is a float in the code.  Here it is the exact fraction <<n, d>> *)
(* in lowest terms; the code's integer 0 and float 0.0 are both <<0, 1>>.  *)
(* The sentinel 'N/A' is <<"N/A">>.                                        *)
(***************************************************************************)
EXTENDS Integers, Sequences, FiniteSets, TLC

(***************************************************************************)
(* Bounds of the model.                                                    *)
(***************************************************************************)
\* nodes (leaves and internal nodes) of the tree of a corpus of one tree
MaxTreeNodes == 5
\* nodes of all the trees together of a corpus of several files
MaxNodes == 3
\* files in the tree directory
MaxFiles == 2
\* minTaxaForAverage ranges over 0..MaxMinTaxa
MaxMinTaxa == 2
\* nodes of the 4-leaf tree of the worked example
MaxExampleNodes == 6
\* characters of a leaf label after its prefix
MaxLabelLen == 3
\* marker genes handed to _identify_redundant_hmms
MaxMarkers == 3

(***************************************************************************)
(* Exact fractions.                                                        *)
(***************************************************************************)
RECURSIVE GCD(_, _)
GCD(a, b) == IF b = 0 THEN a ELSE GCD(b, a % b)

Frac(n, d) == LET g == GCD(n, d) IN <<n \div g, d \div g>>

NA == <<"N/A">>
Zero == <<0, 1>>

\* a <= b, a < b and a + b on fractions
Leq(a, b) == a[1] * b[2] <= b[1] * a[2]
Less(a, b) == a[1] * b[2] < b[1] * a[2]
Plus(a, b) == Frac(a[1] * b[2] + b[1] * a[2], a[2] * b[2])
DivInt(a, k) == Frac(a[1], a[2] * k)

\* Python 2 orders every number before every string: c > 'N/A' is False
Gt(c, v) == IF v = NA THEN FALSE ELSE Less(v, c)

RECURSIVE SumSeq(_)
SumSeq(s) == IF s = <<>> THEN Zero ELSE Plus(Head(s), SumSeq(Tail(s)))

(***************************************************************************)
(* str methods.                                                            *)
(***************************************************************************)
startswith(s, p) == Len(s) >= Len(p) /\ SubSeq(s, 1, Len(p)) = p
endswith(s, p) == Len(s) >= Len(p) /\ SubSeq(s, Len(s) - Len(p) + 1, Len(s)) = p

\* s.find(c): the 0-based index of the first c in s, -1 if there is none
find(s, c) ==
    IF \E i \in 1..Len(s) : s[i] = c
    THEN (CHOOSE i \in 1..Len(s) : s[i] = c /\ \A j \in 1..(i - 1) : s[j] # c) - 1
    ELSE -1

\* s[0:k]
Slice0(s, k) ==
    IF k >= 0 THEN SubSeq(s, 1, IF k < Len(s) THEN k ELSE Len(s))
    ELSE SubSeq(s, 1, Len(s) + k)

\* s[k:]
SliceFrom(s, k) == SubSeq(s, k + 1, Len(s))

IMG_PREFIX == <<"I", "M", "G", "_">>

\* __genomeId that looks for '|' before it looks for the prefix
genomeIdBarFirst(taxaLabel) ==
    IF \E i \in 1..Len(taxaLabel) : taxaLabel[i] = "|"
    THEN Slice0(taxaLabel, find(taxaLabel, "|"))
    ELSE IF startswith(taxaLabel, IMG_PREFIX) THEN SliceFrom(taxaLabel, Len(IMG_PREFIX))
         ELSE taxaLabel

\* ConsistencyTest.__genomeId
genomeId(taxaLabel) ==
    IF startswith(taxaLabel, IMG_PREFIX) THEN SliceFrom(taxaLabel, Len(IMG_PREFIX))
    ELSE IF \E i \in 1..Len(taxaLabel) : taxaLabel[i] = "|"
         THEN Slice0(taxaLabel, find(taxaLabel, "|"))
         ELSE taxaLabel

(***************************************************************************)
(* The external stores: the IMG taxonomy and the annotation table.         *)
(***************************************************************************)
\* img.genomeMetadata(): genome id -> taxonomy (domain, phylum, class)
metadata ==
    (<<"a">> :> <<"Bacteria", "Proteobacteria", "unclassified">>)
    @@ (<<"b">> :> <<"Archaea", "Crenarchaeota", "Thermoprotei">>)

genomeIdToTaxonomy == metadata

\* the labels a leaf can carry: IMG_a, b|g and z (z has no metadata)
LeafLabels == { <<"I", "M", "G", "_", "a">>, <<"b", "|", "g">>, <<"z">> }

\* the TIGRFAMs and Pfam tables: accession -> [shortDesc, longDesc]
descDict ==
    (<<"T", "1">> :> <<"short 1", "long 1">>) @@ (<<"T", "2">> :> <<"short 2", "long 2">>)

Ranks == 1..3

\* Python's order of the taxon labels (upper case sorts before lower case)
TaxonOrder ==
    << "Archaea", "Bacteria", "Crenarchaeota", "Proteobacteria",
       "Thermoprotei", "unclassified" >>

\* sorted(S) for a set S of taxon labels
sortedTaxa(S) == SelectSeq(TaxonOrder, LAMBDA t : t \in S)

(***************************************************************************)
(* Trees as dendropy presents them: node 1 is the seed node, parent[i] is  *)
(* the parent of node i, and the nodes are numbered in preorder, so that   *)
(* the trees of n nodes are the ordered trees a Newick string can encode.  *)
(***************************************************************************)
RECURSIVE Ancestors(_, _)
\* node k and its ancestors
Ancestors(parent, k) == IF k = 0 THEN {} ELSE {k} \cup Ancestors(parent, parent[k])

RECURSIVE Shapes(_)
Shapes(n) ==
    IF n = 1 THEN { <<0>> }
    ELSE { Append(p, q) : <<p, q>> \in
             { pq \in Shapes(n - 1) \X (1..(n - 1)) : pq[2] \in Ancestors(pq[1], n - 1) } }

IsLeafIn(parent, i) == \A j \in 1..Len(parent) : parent[j] # i

Labelings(parent) ==
    { l \in [1..Len(parent) -> LeafLabels \cup {<<>>}] :
        \A i \in 1..Len(parent) : (l[i] = <<>>) <=> ~IsLeafIn(parent, i) }

TreesOfSize(n) ==
    UNION { { [parent |-> p, label |-> l] : l \in Labelings(p) } : p \in Shapes(n) }

Size(tree) == Len(tree.parent)

\* tree.leaf_nodes(): the leaves in preorder
leaf_nodes(tree) == SelectSeq([i \in 1..Size(tree) |-> i], LAMBDA i : IsLeafIn(tree.parent, i))

\* tree.internal_nodes(): the nodes that have a child
internal_nodes(tree) == { i \in 1..Size(tree) : ~IsLeafIn(tree.parent, i) }

\* node.leaf_nodes(): the leaves below a node
node_leaf_nodes(tree, node) ==
    { i \in 1..Size(tree) : IsLeafIn(tree.parent, i) /\ node \in Ancestors(tree.parent, i) }

\* the taxonomy of the genome of a leaf
taxonomyOf(tree, leaf) == genomeIdToTaxonomy[genomeId(tree.label[leaf])]


(***************************************************************************)
(* The inputs of a run: the listing of the tree directory and the          *)
(* parameters of ConsistencyTest.run.                                      *)
(***************************************************************************)
treeExtension == <<".", "t">>

\* T2.t and T1.t are annotated, U3.t is not, T4.x has another extension
FileNames ==
    { <<"T", "2", ".", "t">>, <<"T", "1", ".", "t">>,
      <<"U", "3", ".", "t">>, <<"T", "4", ".", "x">> }

\* the content of a file that is never parsed
NoTree == [parent |-> <<>>, label |-> <<>>]

TreesUpTo(n) == UNION { TreesOfSize(k) : k \in 1..n }

FilesWithin(budget, used) ==
    { [name |-> nm, tree |-> t] : <<nm, t>> \in
        UNION { {nm} \X (IF endswith(nm, treeExtension) THEN TreesUpTo(budget) ELSE {NoTree})
                : nm \in FileNames \ used } }

RECURSIVE CorporaFrom(_, _, _)
\* the listings of k files with distinct names outside used, of at most
\* budget nodes together
CorporaFrom(k, budget, used) ==
    IF k = 0 THEN { <<>> }
    ELSE UNION { { <<f>> \o rest :
                     rest \in CorporaFrom(k - 1, budget - Size(f.tree), used \cup {f.name}) }
                 : f \in FilesWithin(budget, used) }

\* the tree directories of a batch
Corpora == UNION { CorporaFrom(k, MaxNodes, {}) : k \in 1..MaxFiles }

\* the tree directories that hold the one file T1.t
TreeCorpora == { << [name |-> <<"T", "1", ".", "t">>, tree |-> t] >> : t \in TreesUpTo(MaxTreeNodes) }

\* the leaves below node are exactly 2, both of domain Bacteria
SplitsOffTwoBacteria(t, node) ==
    /\ Cardinality(node_leaf_nodes(t, node)) = 2
    /\ \A leaf \in node_leaf_nodes(t, node) : t.label[leaf] = <<"I", "M", "G", "_", "a">>

\* the trees of the worked example: 4 leaves, 3 of domain Bacteria (A) and 1 of
\* domain Archaea (B), and an internal node that splits {A,A} from {A,B}
ExampleTrees ==
    { t \in UNION { TreesOfSize(n) : n \in 6..MaxExampleNodes } :
        /\ Len(leaf_nodes(t)) = 4
        /\ Cardinality({ i \in 1..Size(t) : t.label[i] = <<"I", "M", "G", "_", "a">> }) = 3
        /\ Cardinality({ i \in 1..Size(t) : t.label[i] = <<"b", "|", "g">> }) = 1
        /\ \E node \in internal_nodes(t) : SplitsOffTwoBacteria(t, node) }

\* the tree directories that hold the one file T1.t with a tree of the example
ExampleCorpora == { << [name |-> <<"T", "1", ".", "t">>, tree |-> t] >> : t \in ExampleTrees }

RECURSIVE Words(_, _)
\* the strings of at most n characters of alphabet
Words(alphabet, n) ==
    IF n = 0 THEN { <<>> }
    ELSE Words(alphabet, n - 1)
         \cup { Append(w, c) : <<w, c>> \in { wc \in Words(alphabet, n - 1) \X alphabet : Len(wc[1]) = n - 1 } }

\* leaf.taxon.label: with the prefix 'IMG_', with a near miss of it or with
\* none, followed by characters among which is '|'
TaxaLabels ==
    { prefix \o body : <<prefix, body>> \in
        { <<>>, IMG_PREFIX, <<"I", "M", "G">>, <<"i", "m", "g", "_">> }
        \X Words({"a", "b", "|"}, MaxLabelLen) } \ { <<>> }

\* the tree directories that hold the one file T1.t with a tree of one leaf
LabelCorpora ==
    { << [ name |-> <<"T", "1", ".", "t">>,
           tree |-> [parent |-> <<0, 1>>, label |-> << <<>>, l >>] ] >> : l \in TaxaLabels }

\* the values of consistencyThreshold: 0, 1/2, 2/3 and 1
Thresholds == { Frac(0, 1), Frac(1, 2), Frac(2, 3), Frac(1, 1) }

(***************************************************************************)
(* The state of a run.                                                     *)
(***************************************************************************)
VARIABLES
    treeFiles,            \* os.listdir(geneTreeDir), in listing order
    consistencyThreshold,
    minTaxaForAverage,
    pc,                   \* where the run is
    fileIdx,              \* the position of the loop over treeFiles
    tree,                 \* the tree being scored
    leafIdx,              \* the position of the totals pass in tree.leaf_nodes()
    toScan,               \* the internal nodes the node scan has not visited yet
    consistencyDict,      \* per rank: taxon -> best score or 'N/A'
    totals,               \* per rank: taxon -> number of leaves of the tree
    totalValidLeaves,
    allTaxa,              \* per rank: the taxa seen in any tree
    taxaCounts,           \* tree file -> [leaves, Bacteria, Archaea]
    avgConsistency,       \* tree file -> the 3 rank averages
    allResults,           \* tree file -> its consistencyDict
    outputDir,            \* the regular files of outputDir: name -> content
    reports,              \* the files of outputDir/consistency: tree file -> report
    summary,              \* outputFile: <<>> while it does not exist, else <<[header, rows]>>
    todo,                 \* the tree files the summary loop has not written yet
    filteredGeneTrees,
    retainedGeneTrees,
    returned              \* <<>> until run returns, then <<(filtered, retained)>>

(***************************************************************************)
(* The state of InferMarkers._identify_redundant_hmms.                     *)
(***************************************************************************)
VARIABLES
    marker_gene_list,     \* list(marker_genes)
    gene_count_table,     \* family id -> genome id -> set of gene ids
    redundancy,           \* the threshold
    redundancy_count,     \* marker i -> marker j -> genomes in which they hit the same gene
    hmms_to_remove,
    outerTodo,            \* the keys of redundancy_count the outer loop has not reached yet
    marker_gene_i,        \* the key of the outer loop, <<>> outside the loop
    innerTodo,            \* the keys of redundancy_count[marker_gene_i] not reached yet
    fout,                 \* the lines of output_file after its header: <<kept, redundant>>
    at                    \* where the function is

hmms == << marker_gene_list, gene_count_table, redundancy, redundancy_count, hmms_to_remove,
           outerTodo, marker_gene_i, innerTodo, fout, at >>

inputs == <<treeFiles, consistencyThreshold, minTaxaForAverage>>
scoring == <<tree, leafIdx, toScan, consistencyDict, totals, totalValidLeaves>>
corpus == <<allTaxa, taxaCounts, avgConsistency, allResults>>
outputs == <<outputDir, reports, summary>>
tally == <<todo, filteredGeneTrees, retainedGeneTrees, returned>>
run == <<inputs, pc, fileIdx, scoring, corpus, outputs, tally>>
vars == <<inputs, pc, fileIdx, scoring, corpus, outputs, tally, hmms>>

EmptyDict == <<>>
EmptyDicts == <<EmptyDict, EmptyDict, EmptyDict>>

\* what a previous run left behind
StaleName == <<"o", "l", "d">>
Stale == [kind |-> "stale"]

\* _identify_redundant_hmms has not been called
NotCalled ==
    /\ marker_gene_list = <<>>
    /\ gene_count_table = <<>>
    /\ redundancy = 0
    /\ redundancy_count = <<>>
    /\ hmms_to_remove = {}
    /\ outerTodo = {}
    /\ marker_gene_i = <<>>
    /\ innerTodo = {}
    /\ fout = <<>>
    /\ at = "idle"

InitRun(corpora) ==
    /\ treeFiles \in corpora
    /\ consistencyThreshold = Zero
    /\ minTaxaForAverage = 0
    /\ pc = "start"
    /\ fileIdx = 1
    /\ tree = NoTree
    /\ leafIdx = 1
    /\ toScan = {}
    /\ consistencyDict = EmptyDicts
    /\ totals = EmptyDicts
    /\ totalValidLeaves = 0
    /\ allTaxa = <<{}, {}, {}>>
    /\ taxaCounts = EmptyDict
    /\ avgConsistency = EmptyDict
    /\ allResults = EmptyDict
    /\ outputDir = (StaleName :> Stale)
    /\ reports = (StaleName :> Stale)
    /\ summary = <<>>
    /\ todo = <<>>
    /\ filteredGeneTrees = 0
    /\ retainedGeneTrees = 0
    /\ returned = <<>>

InitWith(corpora) == NotCalled /\ InitRun(corpora)

Init == InitWith(Corpora)

InitTree == InitWith(TreeCorpora)

InitExample == InitWith(ExampleCorpora)

InitLabel == InitWith(LabelCorpora)


(***************************************************************************)
(* dict and sorted().                                                      *)
(***************************************************************************)
\* d.get(k, default) and d[k] = v
Get(d, k, default) == IF k \in DOMAIN d THEN d[k] ELSE default
Put(d, k, v) == (k :> v) @@ d

\* the character codes of the characters of the file names
CharCode ==
    ("." :> 46) @@ ("1" :> 49) @@ ("2" :> 50) @@ ("3" :> 51) @@ ("4" :> 52)
    @@ ("T" :> 84) @@ ("U" :> 85) @@ ("t" :> 116) @@ ("x" :> 120)

RECURSIVE StrLess(_, _)
\* a < b on str
StrLess(a, b) ==
    IF b = <<>> THEN FALSE
    ELSE IF a = <<>> THEN TRUE
    ELSE IF Head(a) # Head(b) THEN CharCode[Head(a)] < CharCode[Head(b)]
    ELSE StrLess(Tail(a), Tail(b))

RECURSIVE sortedNames(_)
\* sorted(S) for a set S of file names
sortedNames(S) ==
    IF S = {} THEN <<>>
    ELSE LET m == CHOOSE x \in S : \A y \in S \ {x} : StrLess(x, y)
         IN <<m>> \o sortedNames(S \ {m})

RECURSIVE Concat(_)
Concat(ss) == IF ss = <<>> THEN <<>> ELSE Head(ss) \o Concat(Tail(ss))

\* [d[k] for k in keys]
Values(d, keys) == [i \in 1..Len(keys) |-> d[keys[i]]]

(***************************************************************************)
(* The score of a taxon at one internal node.                              *)
(***************************************************************************)
\* NotApplicable with < for <=
NotApplicableBelowOne(totalTaxaCount, taxa) == totalTaxaCount < 1 \/ taxa = "unclassified"

\* totalTaxaCount <= 1 or taxa == 'unclassified'
NotApplicable(totalTaxaCount, taxa) == totalTaxaCount <= 1 \/ taxa = "unclassified"

\* DirectScore with the sign of incongruentTaxa slipped
DirectScoreSignSlip(leafCount, totalTaxaCount, nLeaves) ==
    LET taxaCount == leafCount
        incongruentTaxa == taxaCount - nLeaves
    IN  Frac(taxaCount, totalTaxaCount + incongruentTaxa)

\* taxaCount and incongruentTaxa of the clan below the node
DirectTerms(leafCount, totalTaxaCount, nLeaves) ==
    LET taxaCount == leafCount
    IN  [taxaCount |-> taxaCount, incongruentTaxa |-> nLeaves - taxaCount]

\* the clan below the node
DirectScore(leafCount, totalTaxaCount, nLeaves) ==
    LET terms == DirectTerms(leafCount, totalTaxaCount, nLeaves)
    IN  Frac(terms.taxaCount, totalTaxaCount + terms.incongruentTaxa)

\* ComplementScore that takes every leaf of the tree for the other side
ComplementScoreOfWholeTree(leafCount, totalTaxaCount, nLeaves, nValidLeaves) ==
    LET taxaCount == totalTaxaCount - leafCount
        incongruentTaxa == nValidLeaves - taxaCount
    IN  Frac(taxaCount, totalTaxaCount + incongruentTaxa)

\* ComplementScore that looks at the same side again
ComplementScoreSameSide(leafCount, totalTaxaCount, nLeaves, nValidLeaves) ==
    DirectScore(leafCount, totalTaxaCount, nLeaves)

\* taxaCount and incongruentTaxa of the clan in the other direction
ComplementTerms(leafCount, totalTaxaCount, nLeaves, nValidLeaves) ==
    LET taxaCount == totalTaxaCount - leafCount
    IN  [taxaCount |-> taxaCount, incongruentTaxa |-> nValidLeaves - nLeaves - taxaCount]

\* the clan in the other direction
ComplementScore(leafCount, totalTaxaCount, nLeaves, nValidLeaves) ==
    LET terms == ComplementTerms(leafCount, totalTaxaCount, nLeaves, nValidLeaves)
    IN  Frac(terms.taxaCount, totalTaxaCount + terms.incongruentTaxa)

\* KeepMax that only fills a score that is still 0: the first candidate wins
KeepFirst(c, old) == IF old = Zero THEN c ELSE old

\* KeepMax without the comparison: the last candidate wins
KeepLast(c, old) == c

\* if c > consistencyDict[r][taxa]: consistencyDict[r][taxa] = c
KeepMax(c, old) == IF Gt(c, old) THEN c ELSE old

\* leafCounts of a node at rank r, read with leafCounts.get(taxa, 0)
leafCount(t, node, r, taxa) ==
    Cardinality({ leaf \in node_leaf_nodes(t, node) : taxonomyOf(t, leaf)[r] = taxa })

\* the body of the loop over consistencyDict[r] for one node
ScanRank(dict, total, t, node, r, nValidLeaves) ==
    [taxa \in DOMAIN dict |->
        IF NotApplicable(total[taxa], taxa) THEN NA
        ELSE LET n == Cardinality(node_leaf_nodes(t, node))
                 k == leafCount(t, node, r, taxa)
                 direct == KeepMax(DirectScore(k, total[taxa], n), dict[taxa])
             IN  KeepMax(ComplementScore(k, total[taxa], n, nValidLeaves), direct)]

(***************************************************************************)
(* Reports.                                                                *)
(***************************************************************************)
\* '%.2f' % (v * 100): the hundredths of a percent, rounded
Percent(v) == <<"%.2f", (20000 * v[1] + v[2]) \div (2 * v[2])>>

Cell(v) == IF v # NA THEN Percent(v) ELSE NA

\* the taxon columns of a detail report and its cells
DetailHeader(dicts) == Concat([r \in Ranks |-> sortedTaxa(DOMAIN dicts[r])])
DetailCells(dicts) ==
    Concat([r \in Ranks |->
               LET keys == sortedTaxa(DOMAIN dicts[r])
               IN  [i \in 1..Len(keys) |-> Cell(dicts[r][keys[i]])]])

\* SummaryCell that reads a taxon the tree does not have as 0
SummaryCellZero(dict, t) == Cell(Get(dict, t, Zero))

\* the taxon columns of the summary and the cells of a tree in them
SummaryCell(dict, t) == IF t \in DOMAIN dict THEN Cell(dict[t]) ELSE NA
SummaryHeader(taxa) == Concat([r \in Ranks |-> sortedTaxa(taxa[r])])
SummaryCells(dicts, taxa) ==
    Concat([r \in Ranks |->
               LET keys == sortedTaxa(taxa[r])
               IN  [i \in 1..Len(keys) |-> SummaryCell(dicts[r], keys[i])]])

FixedHeader ==
    << "Tree", "Short Desc.", "Long Desc.", "Alignment Length", "# Taxa", "# Bacteria",
       "# Archaea", "Avg. Consistency", "Avg. Domain Consistency",
       "Avg. Phylum Consistency", "Avg. Class Consistency" >>

(***************************************************************************)
(* Averages and the decision.                                              *)
(***************************************************************************)
\* InAverage with >= for >
InAverageAtLeast(total, v, minTaxa) == total >= minTaxa /\ v # NA

\* totals[r][taxa] > minTaxaForAverage and consistencyDict[r][taxa] != 'N/A'
InAverage(total, v, minTaxa) == total > minTaxa /\ v # NA

\* sumConsistency of a rank
sumConsistency(dict, total, minTaxa) ==
    LET keys == SelectSeq(sortedTaxa(DOMAIN dict),
                          LAMBDA taxa : InAverage(total[taxa], dict[taxa], minTaxa))
    IN  Values(dict, keys)

\* sum(sumConsistency) / len(sumConsistency), 0 for an empty list
RankAverage(list) == IF Len(list) > 0 THEN DivInt(SumSeq(list), Len(list)) ELSE Zero

\* avgCon of a tree
OverallAverage(average) == DivInt(SumSeq(average), 3)

\* Retain with > for >=
RetainAbove(avgCon, threshold) == Less(threshold, avgCon)

\* avgCon >= consistencyThreshold
Retain(avgCon, threshold) == Leq(threshold, avgCon)

\* treeFile[0:treeFile.find('.')]
treeIdOf(treeFile) == Slice0(treeFile, find(treeFile, "."))


(***************************************************************************)
(* ConsistencyTest.run, step by step.                                      *)
(***************************************************************************)
treeFile == treeFiles[fileIdx].name

\* the bytes of a file of the tree directory
GeneTreeFile(name) ==
    LET i == CHOOSE j \in 1..Len(treeFiles) : treeFiles[j].name = name
    IN  [kind |-> "tree", tree |-> treeFiles[i].tree]

\* run is called: the output directory is emptied of its regular files and
\* the tables are read
Setup(threshold, minTaxa) ==
    /\ pc = "start"
    /\ consistencyThreshold' = threshold
    /\ minTaxaForAverage' = minTaxa
    /\ outputDir' = EmptyDict
    /\ pc' = "list"
    /\ UNCHANGED <<hmms, treeFiles, fileIdx, scoring, corpus, reports, summary, tally>>

\* a file without the extension is passed over
SkipFile ==
    /\ pc = "list"
    /\ fileIdx <= Len(treeFiles)
    /\ ~endswith(treeFile, treeExtension)
    /\ fileIdx' = fileIdx + 1
    /\ UNCHANGED <<hmms, inputs, pc, scoring, corpus, outputs, tally>>

\* LoadTree that goes on with the totals of the tree before
LoadTreeKeepsTotals ==
    /\ pc = "list"
    /\ fileIdx <= Len(treeFiles)
    /\ endswith(treeFile, treeExtension)
    /\ tree' = treeFiles[fileIdx].tree
    /\ consistencyDict' = EmptyDicts
    /\ totalValidLeaves' = 0
    /\ leafIdx' = 1
    /\ toScan' = {}
    /\ pc' = "totals"
    /\ UNCHANGED <<hmms, inputs, fileIdx, totals, corpus, outputs, tally>>

\* the tree is parsed and the dictionaries of the tree are created
LoadTree ==
    /\ pc = "list"
    /\ fileIdx <= Len(treeFiles)
    /\ endswith(treeFile, treeExtension)
    /\ tree' = treeFiles[fileIdx].tree
    /\ consistencyDict' = EmptyDicts
    /\ totals' = EmptyDicts
    /\ totalValidLeaves' = 0
    /\ leafIdx' = 1
    /\ toScan' = {}
    /\ pc' = "totals"
    /\ UNCHANGED <<hmms, inputs, fileIdx, corpus, outputs, tally>>

\* the totals pass reaches a leaf whose genome has metadata
TotalsLeaf ==
    /\ pc = "totals"
    /\ leafIdx <= Len(leaf_nodes(tree))
    /\ LET leaf == leaf_nodes(tree)[leafIdx]
           id == genomeId(tree.label[leaf])
       IN  /\ id \in DOMAIN metadata
           /\ LET taxonomy == genomeIdToTaxonomy[id]
              IN  /\ totals' = [r \in Ranks |->
                         Put(totals[r], taxonomy[r], Get(totals[r], taxonomy[r], 0) + 1)]
                  /\ consistencyDict' = [r \in Ranks |-> Put(consistencyDict[r], taxonomy[r], Zero)]
                  /\ allTaxa' = [r \in Ranks |-> allTaxa[r] \cup {taxonomy[r]}]
    /\ totalValidLeaves' = totalValidLeaves + 1
    /\ leafIdx' = leafIdx + 1
    /\ UNCHANGED <<hmms, inputs, pc, fileIdx, tree, toScan, taxaCounts, avgConsistency,
                   allResults, outputs, tally>>

\* MissingMetadata that gives up the tree and goes on with the next file
MissingMetadataSkipsTree ==
    /\ pc = "totals"
    /\ leafIdx <= Len(leaf_nodes(tree))
    /\ genomeId(tree.label[leaf_nodes(tree)[leafIdx]]) \notin DOMAIN metadata
    /\ fileIdx' = fileIdx + 1
    /\ pc' = "list"
    /\ UNCHANGED <<hmms, inputs, scoring, corpus, outputs, tally>>

\* the totals pass reaches a leaf whose genome has no metadata: sys.exit()
MissingMetadata ==
    /\ pc = "totals"
    /\ leafIdx <= Len(leaf_nodes(tree))
    /\ genomeId(tree.label[leaf_nodes(tree)[leafIdx]]) \notin DOMAIN metadata
    /\ pc' = "exit"
    /\ UNCHANGED <<hmms, inputs, fileIdx, scoring, corpus, outputs, tally>>

\* the totals pass is over: the counts of the tree are kept and the node scan begins
EndTotals ==
    /\ pc = "totals"
    /\ leafIdx > Len(leaf_nodes(tree))
    /\ taxaCounts' = Put(taxaCounts, treeFile,
                         << totalValidLeaves, Get(totals[1], "Bacteria", 0),
                            Get(totals[1], "Archaea", 0) >>)
    /\ toScan' = internal_nodes(tree)
    /\ pc' = "scan"
    /\ UNCHANGED <<hmms, inputs, fileIdx, tree, leafIdx, consistencyDict, totals, totalValidLeaves,
                   allTaxa, avgConsistency, allResults, outputs, tally>>

\* the node scan visits one internal node
ScanNode(node) ==
    /\ pc = "scan"
    /\ node \in toScan
    /\ consistencyDict' =
           [r \in Ranks |-> ScanRank(consistencyDict[r], totals[r], tree, node, r, totalValidLeaves)]
    /\ toScan' = toScan \ {node}
    /\ UNCHANGED <<hmms, inputs, pc, fileIdx, tree, leafIdx, totals, totalValidLeaves, corpus,
                   outputs, tally>>

\* FinishTree that leaves the detail report for later
FinishTreeWithoutReport ==
    /\ pc = "scan"
    /\ toScan = {}
    /\ avgConsistency' = Put(avgConsistency, treeFile,
           [r \in Ranks |->
               RankAverage(sumConsistency(consistencyDict[r], totals[r], minTaxaForAverage))])
    /\ allResults' = Put(allResults, treeFile, consistencyDict)
    /\ fileIdx' = fileIdx + 1
    /\ pc' = "list"
    /\ UNCHANGED <<hmms, inputs, scoring, allTaxa, taxaCounts, outputs, tally>>

\* the detail report is written, the rank averages are taken, the results are kept
FinishTree ==
    /\ pc = "scan"
    /\ toScan = {}
    /\ reports' = Put(reports, treeFile,
                      [ header |-> <<"Tree">> \o DetailHeader(consistencyDict),
                        row |-> <<treeFile>> \o DetailCells(consistencyDict) ])
    /\ avgConsistency' = Put(avgConsistency, treeFile,
           [r \in Ranks |->
               RankAverage(sumConsistency(consistencyDict[r], totals[r], minTaxaForAverage))])
    /\ allResults' = Put(allResults, treeFile, consistencyDict)
    /\ fileIdx' = fileIdx + 1
    /\ pc' = "list"
    /\ UNCHANGED <<hmms, inputs, scoring, allTaxa, taxaCounts, outputDir, summary, tally>>

\* every file has been seen: the summary is opened and its header written
OpenSummary ==
    /\ pc = "list"
    /\ fileIdx > Len(treeFiles)
    /\ summary' = << [header |-> FixedHeader \o SummaryHeader(allTaxa), rows |-> <<>>] >>
    /\ todo' = sortedNames(DOMAIN allResults)
    /\ filteredGeneTrees' = 0
    /\ retainedGeneTrees' = 0
    /\ pc' = "summary"
    /\ UNCHANGED <<hmms, inputs, fileIdx, scoring, corpus, outputDir, reports, returned>>

\* the row of the next tree is written and the tree is retained or filtered
SummaryRow ==
    /\ pc = "summary"
    /\ todo # <<>>
    /\ LET name == Head(todo)
           treeId == treeIdOf(name)
           avgCon == OverallAverage(avgConsistency[name])
       IN  /\ treeId \in DOMAIN descDict
           /\ summary' = << [ summary[1] EXCEPT !.rows = Append(@,
                  <<treeId, descDict[treeId][1], descDict[treeId][2]>>
                  \o taxaCounts[name] \o <<avgCon>> \o avgConsistency[name]
                  \o SummaryCells(allResults[name], allTaxa)) ] >>
           /\ IF Retain(avgCon, consistencyThreshold)
              THEN /\ retainedGeneTrees' = retainedGeneTrees + 1
                   /\ outputDir' = Put(outputDir, name, GeneTreeFile(name))
                   /\ UNCHANGED filteredGeneTrees
              ELSE /\ filteredGeneTrees' = filteredGeneTrees + 1
                   /\ UNCHANGED <<retainedGeneTrees, outputDir>>
    /\ todo' = Tail(todo)
    /\ UNCHANGED <<hmms, inputs, pc, fileIdx, scoring, corpus, reports, returned>>

\* the next tree has no entry in descDict: KeyError
MissingAnnotation ==
    /\ pc = "summary"
    /\ todo # <<>>
    /\ treeIdOf(Head(todo)) \notin DOMAIN descDict
    /\ pc' = "KeyError"
    /\ UNCHANGED <<hmms, inputs, fileIdx, scoring, corpus, outputs, tally>>

\* Return with the two counts in the other order
ReturnSwapped ==
    /\ pc = "summary"
    /\ todo = <<>>
    /\ returned' = << <<retainedGeneTrees, filteredGeneTrees>> >>
    /\ pc' = "returned"
    /\ UNCHANGED <<hmms, inputs, fileIdx, scoring, corpus, outputs, todo, filteredGeneTrees,
                   retainedGeneTrees>>

\* the summary is closed and the counts are returned
Return ==
    /\ pc = "summary"
    /\ todo = <<>>
    /\ returned' = << <<filteredGeneTrees, retainedGeneTrees>> >>
    /\ pc' = "returned"
    /\ UNCHANGED <<hmms, inputs, fileIdx, scoring, corpus, outputs, todo, filteredGeneTrees,
                   retainedGeneTrees>>

Next ==
    \/ \E threshold \in Thresholds, minTaxa \in 0..MaxMinTaxa : Setup(threshold, minTaxa)
    \/ SkipFile
    \/ LoadTree
    \/ TotalsLeaf
    \/ MissingMetadata
    \/ EndTotals
    \/ \E node \in toScan : ScanNode(node)
    \/ FinishTree
    \/ OpenSummary
    \/ SummaryRow
    \/ MissingAnnotation
    \/ Return

\* a batch over a tree directory of several files
Spec == Init /\ [][Next]_vars

\* the steps of a run over a directory that holds one annotated tree file
NextTree ==
    \/ \E threshold \in Thresholds, minTaxa \in 0..MaxMinTaxa : Setup(threshold, minTaxa)
    \/ LoadTree
    \/ TotalsLeaf
    \/ MissingMetadata
    \/ EndTotals
    \/ \E node \in toScan : ScanNode(node)
    \/ FinishTree
    \/ OpenSummary
    \/ SummaryRow
    \/ Return

\* the scoring of one tree
SpecTree == InitTree /\ [][NextTree]_vars

\* the run over a tree of one leaf, whatever its label
SpecLabel == InitLabel /\ [][NextTree]_vars

\* the steps of a run over a directory that holds a tree of the worked example
NextExample ==
    \/ \E threshold \in Thresholds, minTaxa \in 0..MaxMinTaxa : Setup(threshold, minTaxa)
    \/ LoadTree
    \/ TotalsLeaf
    \/ EndTotals
    \/ \E node \in toScan : ScanNode(node)
    \/ FinishTree
    \/ OpenSummary
    \/ SummaryRow
    \/ Return

\* the scoring of the tree of the worked example
SpecExample == InitExample /\ [][NextExample]_vars


(***************************************************************************)
(* InferMarkers._identify_redundant_hmms (infer_markers.py).  A marker id  *)
(* is a string, 'PF<n>' of Pfam or 'TIGR<n>' of TIGRFAMs.                  *)
(***************************************************************************)
PF == <<"P", "F">>
TIGR == <<"T", "I", "G", "R">>
pfam == <<"p", "f", "a", "m">>

MarkerIds == { PF \o <<"1">>, PF \o <<"2">>, TIGR \o <<"1">>, TIGR \o <<"2">> }

GenomeIds == { "g1", "g2" }

\* the gene sets a family can hit in a genome
GenesOf(genome_id) == IF genome_id = "g1" THEN { {"x"}, {"y"} } ELSE { {"x"} }

\* gene_count_table[family]: genome id -> set of gene ids, for the genomes it hits
FamilyHits ==
    UNION { { f \in [G -> SUBSET {"x", "y"}] : \A g \in G : f[g] \in GenesOf(g) }
            : G \in SUBSET GenomeIds }

RECURSIVE ListsOf(_, _)
\* the lists of k distinct marker ids outside used
ListsOf(k, used) ==
    IF k = 0 THEN { <<>> }
    ELSE UNION { { <<m>> \o rest : rest \in ListsOf(k - 1, used \cup {m}) } : m \in MarkerIds \ used }

MarkerLists == UNION { ListsOf(k, {}) : k \in 1..MaxMarkers }

\* sub in s
contains(s, sub) == \E i \in 1..(Len(s) - Len(sub) + 1) : SubSeq(s, i, i + Len(sub) - 1) = sub

RECURSIVE replace(_, _)
\* s.replace(old, '')
replace(s, old) ==
    IF Len(s) < Len(old) THEN s
    ELSE IF startswith(s, old) THEN replace(SubSeq(s, Len(old) + 1, Len(s)), old)
    ELSE <<Head(s)>> \o replace(Tail(s), old)

DigitValue == ("0" :> 0) @@ ("1" :> 1) @@ ("2" :> 2)

RECURSIVE int(_)
\* int(s) of a string of digits
int(s) ==
    IF Len(s) = 1 THEN DigitValue[s[1]]
    ELSE 10 * int(SubSeq(s, 1, Len(s) - 1)) + DigitValue[s[Len(s)]]

\* the genomes in which two families hit a common gene (lines 313-316)
shared(genes_in_genomes_i, genes_in_genomes_j) ==
    { genome_id \in DOMAIN genes_in_genomes_i :
        /\ genome_id \in DOMAIN genes_in_genomes_j
        /\ genes_in_genomes_i[genome_id] \cap genes_in_genomes_j[genome_id] # {} }

\* redundancy_count after the loops of lines 305-316: an entry exists only
\* where the count was incremented
countRedundancy(list, table) ==
    LET hit(a, b) == shared(table[list[a]], table[list[b]])
        later(a) == { b \in (a + 1)..Len(list) : hit(a, b) # {} }
        firsts == { a \in 1..Len(list) : later(a) # {} }
        indexOf(m) == CHOOSE a \in 1..Len(list) : list[a] = m
    IN  [ m \in { list[a] : a \in firsts } |->
            [ n \in { list[b] : b \in later(indexOf(m)) } |->
                Cardinality(hit(indexOf(m), indexOf(n))) ] ]

\* the marker of a redundant pair that is removed (lines 339-367)
discarded(i, j) ==
    IF contains(i, PF) /\ ~contains(j, PF) THEN i
    ELSE IF ~contains(i, pfam) /\ contains(j, PF) THEN j
    ELSE IF contains(i, PF) /\ contains(j, PF)
         THEN IF int(replace(i, PF)) > int(replace(j, PF)) THEN i ELSE j
         ELSE IF int(replace(i, TIGR)) > int(replace(j, TIGR)) THEN i ELSE j

InitMarkers ==
    /\ InitRun({ <<>> })
    /\ marker_gene_list \in MarkerLists
    /\ gene_count_table \in [{ marker_gene_list[k] : k \in 1..Len(marker_gene_list) } -> FamilyHits]
    /\ redundancy \in {0, 1}
    /\ redundancy_count = <<>>
    /\ hmms_to_remove = {}
    /\ outerTodo = {}
    /\ marker_gene_i = <<>>
    /\ innerTodo = {}
    /\ fout = <<>>
    /\ at = "start"

\* the output file is opened and the shared genes are counted
CountSharedGenes ==
    /\ at = "start"
    /\ redundancy_count' = countRedundancy(marker_gene_list, gene_count_table)
    /\ outerTodo' = DOMAIN redundancy_count'
    /\ hmms_to_remove' = {}
    /\ fout' = <<>>
    /\ at' = "outer"
    /\ UNCHANGED <<run, marker_gene_list, gene_count_table, redundancy, marker_gene_i, innerTodo>>

\* for marker_gene_i in redundancy_count: in the order of the dict
NextMarker(i) ==
    /\ at = "outer"
    /\ i \in outerTodo
    /\ marker_gene_i' = i
    /\ outerTodo' = outerTodo \ {i}
    /\ innerTodo' = DOMAIN redundancy_count[i]
    /\ at' = "inner"
    /\ UNCHANGED <<run, marker_gene_list, gene_count_table, redundancy, redundancy_count,
                   hmms_to_remove, fout>>

\* for marker_gene_j, count in redundancy_count[marker_gene_i].iteritems()
ResolvePair(marker_gene_j) ==
    /\ at = "inner"
    /\ marker_gene_j \in innerTodo
    /\ IF /\ redundancy_count[marker_gene_i][marker_gene_j] > redundancy
          /\ ~(marker_gene_i \in hmms_to_remove \/ marker_gene_j \in hmms_to_remove)
       THEN LET gone == discarded(marker_gene_i, marker_gene_j)
                kept == IF gone = marker_gene_i THEN marker_gene_j ELSE marker_gene_i
            IN  /\ hmms_to_remove' = hmms_to_remove \cup {gone}
                /\ fout' = Append(fout, <<kept, gone>>)
       ELSE UNCHANGED <<hmms_to_remove, fout>>
    /\ innerTodo' = innerTodo \ {marker_gene_j}
    /\ IF innerTodo' = {}
       THEN marker_gene_i' = <<>> /\ at' = "outer"
       ELSE UNCHANGED <<marker_gene_i, at>>
    /\ UNCHANGED <<run, marker_gene_list, gene_count_table, redundancy, redundancy_count, outerTodo>>

\* return hmms_to_remove
ReturnRedundant ==
    /\ at = "outer"
    /\ outerTodo = {}
    /\ at' = "returned"
    /\ UNCHANGED <<run, marker_gene_list, gene_count_table, redundancy, redundancy_count,
                   hmms_to_remove, outerTodo, marker_gene_i, innerTodo, fout>>

NextMarkers ==
    \/ CountSharedGenes
    \/ \E i \in outerTodo : NextMarker(i)
    \/ \E marker_gene_j \in innerTodo : ResolvePair(marker_gene_j)
    \/ ReturnRedundant

\* a call of _identify_redundant_hmms
SpecMarkers == InitMarkers /\ [][NextMarkers]_vars


(***************************************************************************)
(* What the claims speak of, read off the tree itself.                     *)
(***************************************************************************)
\* the node scan of the current tree has visited every internal node
ScoringDone == pc = "scan" /\ toScan = {}

LeavesOf(t) == { i \in 1..Size(t) : IsLeafIn(t.parent, i) }

\* every leaf of the tree has metadata
Resolved(t) == \A leaf \in LeavesOf(t) : genomeId(t.label[leaf]) \in DOMAIN metadata

\* the taxa of the tree at a rank, and the leaves of a taxon in the tree or below a node
TaxaOf(t, r) == { taxonomyOf(t, leaf)[r] : leaf \in LeavesOf(t) }
TreeTotal(t, r, taxa) == Cardinality({ leaf \in LeavesOf(t) : taxonomyOf(t, leaf)[r] = taxa })
Below(t, node) == { leaf \in LeavesOf(t) : node \in Ancestors(t.parent, leaf) }
CountBelow(t, node, r, taxa) ==
    Cardinality({ leaf \in Below(t, node) : taxonomyOf(t, leaf)[r] = taxa })

\* the two candidates of a taxon at an internal node
DirectCandidate(t, node, r, taxa) ==
    Frac(CountBelow(t, node, r, taxa),
         TreeTotal(t, r, taxa) + Cardinality(Below(t, node)) - CountBelow(t, node, r, taxa))
ComplementCandidate(t, node, r, taxa) ==
    Frac(TreeTotal(t, r, taxa) - CountBelow(t, node, r, taxa),
         TreeTotal(t, r, taxa) + (Cardinality(LeavesOf(t)) - Cardinality(Below(t, node)))
             - (TreeTotal(t, r, taxa) - CountBelow(t, node, r, taxa)))
DirectCandidates(t, r, taxa) == { DirectCandidate(t, node, r, taxa) : node \in internal_nodes(t) }
Candidates(t, r, taxa) ==
    DirectCandidates(t, r, taxa)
    \cup { ComplementCandidate(t, node, r, taxa) : node \in internal_nodes(t) }

MaxOf(S) == CHOOSE x \in S : \A y \in S : Leq(y, x)

\* a taxon that carries a signal: at least 2 leaves and classified
Scored(t, r, taxa) == TreeTotal(t, r, taxa) >= 2 /\ taxa # "unclassified"

\* a value of a consistency map that is a number between 0 and 1
One == <<1, 1>>
IsNum(v) == Len(v) = 2
InUnitInterval(v) == v = NA \/ (IsNum(v) /\ v[2] > 0 /\ Leq(Zero, v) /\ Leq(v, One))

(***************************************************************************)
(* C1: every value of the consistency map of the tree being scored is, in  *)
(* every state of the run, 'N/A' or a number s with 0 <= s <= 1.           *)
(***************************************************************************)
C1_ScoreInUnitInterval ==
    /\ \A r \in Ranks : \A taxa \in DOMAIN consistencyDict[r] :
           InUnitInterval(consistencyDict[r][taxa])
    /\ \A name \in DOMAIN allResults : \A r \in Ranks : \A taxa \in DOMAIN allResults[name][r] :
           InUnitInterval(allResults[name][r][taxa])

\* the scan of a tree ends with a score strictly between 0 and 1 and with an 'N/A'
C1_Witness ==
    /\ ScoringDone
    /\ \E r \in Ranks : \E taxa \in DOMAIN consistencyDict[r] :
           /\ consistencyDict[r][taxa] # NA
           /\ Less(Zero, consistencyDict[r][taxa])
           /\ Less(consistencyDict[r][taxa], One)
    /\ \E r \in Ranks : \E taxa \in DOMAIN consistencyDict[r] : consistencyDict[r][taxa] = NA

(***************************************************************************)
(* C2: when the scoring of a tree ends, every taxon of the tree with       *)
(* exactly 1 leaf and every taxon 'unclassified' has the value 'N/A', and  *)
(* is no term of the rank average, whatever minTaxaForAverage is.          *)
(***************************************************************************)
C2_SingletonsAndUnclassifiedAreNA ==
    ScoringDone =>
        \A r \in Ranks : \A taxa \in DOMAIN consistencyDict[r] :
            (totals[r][taxa] = 1 \/ taxa = "unclassified") =>
                /\ consistencyDict[r][taxa] = NA
                /\ ~InAverage(totals[r][taxa], consistencyDict[r][taxa], minTaxaForAverage)

(***************************************************************************)
(* C3: when the scoring of a tree ends, the score of every taxon with at   *)
(* least 2 leaves that is not 'unclassified' is the maximum of the direct  *)
(* and the complementary candidates of all the internal nodes.             *)
(***************************************************************************)
C3_ScoreIsMaxCandidate ==
    ScoringDone =>
        \A r \in Ranks : \A taxa \in DOMAIN consistencyDict[r] :
            Scored(tree, r, taxa) =>
                consistencyDict[r][taxa] = MaxOf(Candidates(tree, r, taxa))

\* a scan ends with a score that only a complementary candidate reaches
C3_Witness ==
    /\ ScoringDone
    /\ \E r \in Ranks : \E taxa \in DOMAIN consistencyDict[r] :
           /\ Scored(tree, r, taxa)
           /\ \A c \in DirectCandidates(tree, r, taxa) : Less(c, consistencyDict[r][taxa])

\* what a step of the run does to the scores of the tree being scored
C4_ScanStep ==
    /\ (pc = "totals" /\ pc' = "scan") =>
           \A r \in Ranks : \A taxa \in DOMAIN consistencyDict'[r] :
               consistencyDict'[r][taxa] = Zero
    /\ (pc = "scan" /\ pc' = "scan") =>
           \A r \in Ranks : \A taxa \in DOMAIN consistencyDict[r] :
               LET old == consistencyDict[r][taxa]
                   new == consistencyDict'[r][taxa]
               IN  (old # NA /\ new # NA) =>
                       /\ Leq(old, new)
                       /\ Leq(new, One)
                       /\ new # old =>
                              /\ Less(old, new)
                              /\ \E node \in toScan \ toScan' :
                                     new \in { DirectCandidate(tree, node, r, taxa),
                                               ComplementCandidate(tree, node, r, taxa) }

(***************************************************************************)
(* C4: the scan starts with every score at 0, and a step of the scan       *)
(* leaves a numeric score as it is or replaces it by a strictly larger     *)
(* candidate of the node, never above 1.                                   *)
(***************************************************************************)
C4_ScoreNeverDecreases == [][C4_ScanStep]_vars

\* in the middle of a scan a score has risen above 0 and a node is still to come
C4_Witness ==
    /\ pc = "scan"
    /\ toScan # {}
    /\ toScan # internal_nodes(tree)
    /\ \E r \in Ranks : \E taxa \in DOMAIN consistencyDict[r] :
           consistencyDict[r][taxa] # NA /\ Less(Zero, consistencyDict[r][taxa])

\* the scan of the internal nodes in a given order, from given maps
RECURSIVE ScanInOrder(_, _, _)
ScanInOrder(dicts, t, nodes) ==
    IF nodes = <<>> THEN dicts
    ELSE ScanInOrder([r \in Ranks |->
                         ScanRank(dicts[r], [taxa \in DOMAIN dicts[r] |-> TreeTotal(t, r, taxa)],
                                  t, Head(nodes), r, Cardinality(LeavesOf(t)))],
                     t, Tail(nodes))

Preorder(t) == SelectSeq([i \in 1..Size(t) |-> i], LAMBDA i : i \in internal_nodes(t))

(***************************************************************************)
(* C5: whatever the order in which the scan visited the internal nodes,    *)
(* the maps it ends with are those of the scan in preorder.                *)
(***************************************************************************)
C5_OrderOfNodesIsIrrelevant ==
    ScoringDone =>
        consistencyDict =
            ScanInOrder([r \in Ranks |-> [taxa \in TaxaOf(tree, r) |-> Zero]], tree, Preorder(tree))

\* a scan of at least 2 internal nodes whose candidates for a taxon differ
C5_Witness ==
    /\ ScoringDone
    /\ Cardinality(internal_nodes(tree)) >= 2
    /\ \E r \in Ranks : \E taxa \in DOMAIN consistencyDict[r] :
           /\ Scored(tree, r, taxa)
           /\ Cardinality(Candidates(tree, r, taxa)) >= 3


(***************************************************************************)
(* The trees of the corpus and what the summary loop has done.             *)
(***************************************************************************)
FileTree(name) == GeneTreeFile(name).tree

FileMatches(i) == endswith(treeFiles[i].name, treeExtension)

\* the tree files of the listing before position i
MatchingBefore(i) == { treeFiles[j].name : j \in { k \in 1..Len(treeFiles) : k < i /\ FileMatches(k) } }

\* the trees whose row the summary loop has written
Processed ==
    IF pc \in {"summary", "returned", "KeyError"}
    THEN { name \in DOMAIN allResults : \A i \in 1..Len(todo) : todo[i] # name }
    ELSE {}

\* the files this run has put into outputDir/consistency
ReportsOfRun == DOMAIN reports \ {StaleName}

RECURSIVE SetSum(_, _)
\* the sum of d over the keys in S
SetSum(d, S) ==
    IF S = {} THEN Zero
    ELSE LET k == CHOOSE x \in S : TRUE IN Plus(d[k], SetSum(d, S \ {k}))

\* the taxa of a scored tree that count in the average of a rank
Qualifying(name, r) ==
    { taxa \in DOMAIN allResults[name][r] :
        /\ TreeTotal(FileTree(name), r, taxa) > minTaxaForAverage
        /\ allResults[name][r][taxa] # NA }

(***************************************************************************)
(* C6: the rank average of a scored tree is the mean of the scores of the  *)
(* taxa with more than minTaxaForAverage leaves and a numeric score, and   *)
(* is 0 when there is no such taxon.                                       *)
(***************************************************************************)
C6_RankAverageIsMeanOfQualifying ==
    \A name \in DOMAIN avgConsistency : \A r \in Ranks :
        LET Q == Qualifying(name, r)
        IN  avgConsistency[name][r] =
                IF Q = {} THEN Zero
                ELSE DivInt(SetSum(allResults[name][r], Q), Cardinality(Q))

\* a numeric score is kept out of the average by the minimum and the average is 0
C6_Witness ==
    \E name \in DOMAIN avgConsistency : \E r \in Ranks :
        /\ Qualifying(name, r) = {}
        /\ avgConsistency[name][r] = Zero
        /\ \E taxa \in DOMAIN allResults[name][r] :
               /\ allResults[name][r][taxa] # NA
               /\ Less(Zero, allResults[name][r][taxa])
               /\ TreeTotal(FileTree(name), r, taxa) = minTaxaForAverage

\* the overall average of a scored tree
MeanOfRanks(name) ==
    DivInt(Plus(Plus(avgConsistency[name][1], avgConsistency[name][2]), avgConsistency[name][3]), 3)

RetainedOfRun == { name \in Processed : name \in DOMAIN outputDir }

(***************************************************************************)
(* C7: a tree whose row is written is retained (counted and copied) iff    *)
(* the mean of its 3 rank averages is >= consistencyThreshold, and is      *)
(* filtered otherwise; every such tree is counted exactly once.            *)
(***************************************************************************)
C7_RetainedIffMeanAtLeastThreshold ==
    /\ \A name \in Processed :
           (name \in DOMAIN outputDir) <=> Leq(consistencyThreshold, MeanOfRanks(name))
    /\ retainedGeneTrees = Cardinality(RetainedOfRun)
    /\ filteredGeneTrees = Cardinality(Processed \ RetainedOfRun)

\* a tree with a rank average of 0 and a mean equal to the threshold is retained
C7_Witness ==
    /\ pc = "returned"
    /\ \E name \in Processed :
           /\ MeanOfRanks(name) = consistencyThreshold
           /\ Less(Zero, consistencyThreshold)
           /\ \E r \in Ranks : avgConsistency[name][r] = Zero
           /\ name \in DOMAIN outputDir
           /\ retainedGeneTrees = 1

\* the i-th leaf of the tree is in the taxonomy lookup
HasMetadata(t, i) == genomeId(t.label[leaf_nodes(t)[i]]) \in DOMAIN metadata

(***************************************************************************)
(* C8: the totals pass never goes past a leaf that has no metadata: the    *)
(* run ends at that leaf, with no node scan and no report of that tree,    *)
(* no later tree scored, no summary, no copy and nothing returned.         *)
(***************************************************************************)
C8_RunEndsAtUnresolvedLeaf ==
    /\ pc \in {"totals", "scan", "exit"} =>
           \A i \in 1..Len(leaf_nodes(tree)) : i < leafIdx => HasMetadata(tree, i)
    /\ \A name \in MatchingBefore(fileIdx) : Resolved(FileTree(name))
    /\ pc = "exit" =>
           /\ ~HasMetadata(tree, leafIdx)
           /\ totalValidLeaves = leafIdx - 1
           /\ toScan = {}
           /\ \A r \in Ranks : \A taxa \in DOMAIN consistencyDict[r] : consistencyDict[r][taxa] = Zero
           /\ \A j \in fileIdx..Len(treeFiles) :
                  /\ treeFiles[j].name \notin DOMAIN reports
                  /\ treeFiles[j].name \notin DOMAIN allResults
                  /\ treeFiles[j].name \notin DOMAIN avgConsistency
                  /\ treeFiles[j].name \notin DOMAIN taxaCounts
           /\ summary = <<>>
           /\ outputDir = EmptyDict
           /\ returned = <<>>
           /\ ~ENABLED Next

\* the run has ended at a leaf of a tree that another tree file follows
C8_Witness ==
    /\ pc = "exit"
    /\ fileIdx < Len(treeFiles)
    /\ FileMatches(fileIdx + 1)

(***************************************************************************)
(* C9, as claimed: a run that ended on a missing organism identifier or a  *)
(* missing annotation has left no summary, no detail report and no copy.   *)
(***************************************************************************)
C9_NoOutputAfterAbort ==
    pc \in {"exit", "KeyError"} =>
        /\ summary = <<>>
        /\ ReportsOfRun = {}
        /\ outputDir = EmptyDict

(***************************************************************************)
(* C9, amended: a run that ended on a missing organism identifier has left *)
(* no summary and no copy, and the detail reports of exactly the trees     *)
(* scored before the failing one; a run that ended on a missing annotation *)
(* has left the summary with its header and the rows written so far, the   *)
(* copies of the trees retained so far and the detail report of every tree.*)
(***************************************************************************)
C9_OutputAfterAbort ==
    /\ pc = "exit" =>
           /\ summary = <<>>
           /\ outputDir = EmptyDict
           /\ ReportsOfRun = MatchingBefore(fileIdx)
    /\ pc = "KeyError" =>
           /\ summary # <<>>
           /\ Len(summary[1].rows) = Cardinality(Processed)
           /\ DOMAIN outputDir = RetainedOfRun
           /\ ReportsOfRun = MatchingBefore(Len(treeFiles) + 1)
           /\ Head(todo) \notin Processed

\* the run has ended on a missing organism identifier after another tree was scored
C9_Witness ==
    /\ pc = "exit"
    /\ ReportsOfRun # {}

\* the taxa of all scored trees at a rank, and the columns and cells they call for
ObservedTaxa(r) == UNION { TaxaOf(FileTree(name), r) : name \in DOMAIN allResults }

TaxonColumns == Concat([r \in Ranks |-> sortedTaxa(ObservedTaxa(r))])

ExpectedCells(name) ==
    Concat([r \in Ranks |->
               LET cols == sortedTaxa(ObservedTaxa(r))
               IN  [i \in 1..Len(cols) |->
                       IF cols[i] \in TaxaOf(FileTree(name), r)
                       THEN Cell(allResults[name][r][cols[i]])
                       ELSE NA]])

LastFields(row, n) == SubSeq(row, Len(row) - n + 1, Len(row))

TreeFilesOfListing == MatchingBefore(Len(treeFiles) + 1)

AtOrAboveThreshold == { name \in DOMAIN allResults : Leq(consistencyThreshold, MeanOfRanks(name)) }

(***************************************************************************)
(* C11: a run that completes returns (filtered, retained) in that order;   *)
(* retained is the number of scored trees whose overall average is >= the  *)
(* threshold and the number of tree files copied into the output           *)
(* directory, filtered is the number of the other scored trees, and the    *)
(* two add up to the number of files of the listing that end with the      *)
(* extension; the other files are neither scored nor counted.              *)
(***************************************************************************)
C11_ReturnedCounts ==
    /\ pc # "returned" => returned = <<>>
    /\ pc = "returned" =>
           /\ returned = << << Cardinality(DOMAIN allResults \ AtOrAboveThreshold),
                               Cardinality(AtOrAboveThreshold) >> >>
           /\ DOMAIN outputDir = AtOrAboveThreshold
           /\ \A name \in DOMAIN outputDir : outputDir[name] = GeneTreeFile(name)
           /\ DOMAIN allResults = TreeFilesOfListing
           /\ returned[1][1] + returned[1][2] =
                  Cardinality({ i \in 1..Len(treeFiles) : FileMatches(i) })

\* a run over a retained tree and a file without the extension returns (0, 1)
C11_Witness ==
    /\ pc = "returned"
    /\ returned = << <<0, 1>> >>
    /\ Less(Zero, consistencyThreshold)
    /\ \E i \in 1..Len(treeFiles) : ~FileMatches(i)

(***************************************************************************)
(* C12: the output directory is cleared before any tree is scored, and     *)
(* after a completed run it holds nothing from before the run: its files   *)
(* are exactly the copies of the trees retained in this run and, in        *)
(* outputDir/consistency, the detail reports of the trees scored in this   *)
(* run.                                                                    *)
(***************************************************************************)
C12_OutputDirHoldsOnlyThisRun ==
    /\ pc # "start" => StaleName \notin DOMAIN outputDir
    /\ pc = "returned" =>
           /\ DOMAIN outputDir = AtOrAboveThreshold
           /\ \A name \in DOMAIN outputDir : outputDir[name] = GeneTreeFile(name)
           /\ DOMAIN reports = DOMAIN allResults

\* the internal nodes of the tree being scored that split {A,A} from {A,B}, and
\* the two candidates the code computes for a taxon at a node
SplitNodes == { node \in internal_nodes(tree) : SplitsOffTwoBacteria(tree, node) }

DirectAt(node, r, taxa) ==
    DirectScore(leafCount(tree, node, r, taxa), totals[r][taxa],
                Cardinality(node_leaf_nodes(tree, node)))

ComplementAt(node, r, taxa) ==
    ComplementScore(leafCount(tree, node, r, taxa), totals[r][taxa],
                    Cardinality(node_leaf_nodes(tree, node)), totalValidLeaves)

\* the internal nodes the scan has visited
Scanned == IF pc = "scan" THEN internal_nodes(tree) \ toScan ELSE {}

(***************************************************************************)
(* C13, as claimed: in the 4-leaf tree {A,A,A,B}, at the node that splits  *)
(* {A,A} from {A,B}, A has the direct candidate 2/3 and the complementary  *)
(* candidate 1/4, and once that node has been scanned the score recorded   *)
(* for A is 2/3 and B is 'N/A'.                                            *)
(***************************************************************************)
C13_RecordedScoreIsTwoThirds ==
    \A node \in SplitNodes \cap Scanned :
        /\ DirectAt(node, 1, "Bacteria") = Frac(2, 3)
        /\ ComplementAt(node, 1, "Bacteria") = Frac(1, 4)
        /\ consistencyDict[1]["Bacteria"] = Frac(2, 3)
        /\ consistencyDict[1]["Archaea"] = NA

(***************************************************************************)
(* C13, amended: at that node A has the direct candidate 2/3 and the       *)
(* complementary candidate 1/4, and B is 'N/A'; the score recorded for A   *)
(* once that node has been scanned is the largest candidate of the nodes   *)
(* scanned so far: 2/3 while only such nodes have been scanned, and at     *)
(* least 3/4, the direct candidate 3/(3+1) of the seed node, once the seed *)
(* node has been scanned.                                                  *)
(***************************************************************************)
C13_RecordedScoreIsMaxSoFar ==
    \A node \in SplitNodes \cap Scanned :
        /\ totals[1]["Bacteria"] = 3
        /\ totals[1]["Archaea"] = 1
        /\ DirectAt(node, 1, "Bacteria") = Frac(2, 3)
        /\ ComplementAt(node, 1, "Bacteria") = Frac(1, 4)
        /\ consistencyDict[1]["Archaea"] = NA
        /\ consistencyDict[1]["Bacteria"] =
               MaxOf(UNION { { DirectAt(n, 1, "Bacteria"), ComplementAt(n, 1, "Bacteria") }
                             : n \in Scanned })
        /\ Scanned \subseteq SplitNodes => consistencyDict[1]["Bacteria"] = Frac(2, 3)
        /\ 1 \in Scanned =>
               /\ DirectAt(1, 1, "Bacteria") = Frac(3, 4)
               /\ Leq(Frac(3, 4), consistencyDict[1]["Bacteria"])

\* the seed node and then the splitting node have been scanned: A stands at 3/4
C13_Witness ==
    /\ pc = "scan"
    /\ SplitNodes # {}
    /\ SplitNodes \cup {1} \subseteq Scanned
    /\ consistencyDict[1]["Bacteria"] = Frac(3, 4)

\* what the scoring of a tree yields, as a function of the tree alone (and, for
\* the rank averages, of minTaxaForAverage)
TotalsOf(t) == [r \in Ranks |-> [taxa \in TaxaOf(t, r) |-> TreeTotal(t, r, taxa)]]

ScoresOf(t) == ScanInOrder([r \in Ranks |-> [taxa \in TaxaOf(t, r) |-> Zero]], t, Preorder(t))

AveragesOf(t, minTaxa) ==
    [r \in Ranks |-> RankAverage(sumConsistency(ScoresOf(t)[r], TotalsOf(t)[r], minTaxa))]

CountsOf(t) ==
    << Cardinality(LeavesOf(t)), Cardinality({ leaf \in LeavesOf(t) : taxonomyOf(t, leaf)[1] = "Bacteria" }),
       Cardinality({ leaf \in LeavesOf(t) : taxonomyOf(t, leaf)[1] = "Archaea" }) >>

(***************************************************************************)
(* C14: the consistency maps, the totals and the rank averages of a scored *)
(* tree are those of the tree scored on its own: they do not depend on the *)
(* other files of the tree directory, on their order or on the name of the *)
(* file, so that the same tree always gets the same maps.  Of what the     *)
(* trees before have left, the scoring of a tree only adds to the observed *)
(* taxa.                                                                   *)
(***************************************************************************)
C14_ScoresDependOnTreeOnly ==
    /\ \A name \in DOMAIN allResults :
           /\ allResults[name] = ScoresOf(FileTree(name))
           /\ avgConsistency[name] = AveragesOf(FileTree(name), minTaxaForAverage)
           /\ taxaCounts[name] = CountsOf(FileTree(name))
    /\ ScoringDone =>
           /\ totals = TotalsOf(tree)
           /\ totalValidLeaves = Cardinality(LeavesOf(tree))
           /\ consistencyDict = ScoresOf(tree)
    /\ \A r \in Ranks : ObservedTaxa(r) \subseteq allTaxa[r]

\* two different trees with the same taxa have been scored one after the other
C14_Witness ==
    /\ Cardinality(DOMAIN allResults) = 2
    /\ \E n1 \in DOMAIN allResults : \E n2 \in DOMAIN allResults \ {n1} :
           /\ FileTree(n1) # FileTree(n2)
           /\ TaxaOf(FileTree(n1), 1) = TaxaOf(FileTree(n2), 1)
           /\ \E taxa \in TaxaOf(FileTree(n2), 1) : allResults[n2][1][taxa] = NA

\* the three cases of a leaf label and the organism identifier of each
HasPrefix(l) == Len(l) >= 4 /\ l[1] = "I" /\ l[2] = "M" /\ l[3] = "G" /\ l[4] = "_"
HasBar(l) == \E i \in 1..Len(l) : l[i] = "|"
FirstBar(l) == CHOOSE i \in 1..Len(l) : l[i] = "|" /\ \A j \in 1..Len(l) : l[j] = "|" => i <= j

ExpectedId(l) ==
    IF HasPrefix(l) THEN [i \in 1..(Len(l) - 4) |-> l[i + 4]]
    ELSE IF HasBar(l) THEN [i \in 1..(FirstBar(l) - 1) |-> l[i]]
    ELSE l

\* the labels of the leaves of the trees of the listing
LabelsOfListing ==
    UNION { { treeFiles[i].tree.label[leaf] : leaf \in LeavesOf(treeFiles[i].tree) }
            : i \in 1..Len(treeFiles) }

(***************************************************************************)
(* C15: the organism identifier of a leaf label is the label without its   *)
(* first 4 characters if it begins with 'IMG_', even when it holds a '|';  *)
(* else the part before the first '|' if it holds one; else the label.     *)
(* The totals pass looks up exactly this identifier.                       *)
(***************************************************************************)
C15_GenomeIdOfLabel ==
    /\ \A l \in LabelsOfListing :
           /\ genomeId(l) = ExpectedId(l)
           /\ HasPrefix(l) => IMG_PREFIX \o genomeId(l) = l
           /\ (~HasPrefix(l) /\ HasBar(l)) =>
                  /\ ~HasBar(genomeId(l))
                  /\ SubSeq(l, 1, Len(genomeId(l)) + 1) = Append(genomeId(l), "|")
           /\ (~HasPrefix(l) /\ ~HasBar(l)) => genomeId(l) = l
    /\ pc = "exit" => ExpectedId(tree.label[leaf_nodes(tree)[leafIdx]]) \notin DOMAIN metadata
    /\ pc = "scan" =>
           \A r \in Ranks :
               DOMAIN totals[r] =
                   { metadata[ExpectedId(tree.label[leaf])][r] : leaf \in LeavesOf(tree) }

\* the run has looked up the identifier of a label that begins with 'IMG_' and holds a '|'
C15_Witness ==
    /\ pc = "exit"
    /\ HasPrefix(tree.label[leaf_nodes(tree)[leafIdx]])
    /\ HasBar(tree.label[leaf_nodes(tree)[leafIdx]])

\* the operands of the two divisions of a taxon at a node of the tree being scored
DirectTermsAt(node, r, taxa) ==
    DirectTerms(leafCount(tree, node, r, taxa), totals[r][taxa],
                Cardinality(node_leaf_nodes(tree, node)))

ComplementTermsAt(node, r, taxa) ==
    ComplementTerms(leafCount(tree, node, r, taxa), totals[r][taxa],
                    Cardinality(node_leaf_nodes(tree, node)), totalValidLeaves)

\* the taxon gets to the divisions of lines 144 and 151
ReachesDivision(r, taxa) == ~NotApplicable(totals[r][taxa], taxa)

(***************************************************************************)
(* C16: at every internal node the scan visits, the seed node included,    *)
(* every taxon that reaches the two divisions has totalTaxaCount >= 2,     *)
(* both incongruentTaxa >= 0 and both taxaCount in 0..totalTaxaCount, so   *)
(* that no numerator is negative and every denominator is at least 2; a    *)
(* taxon with a total of 1 or less is 'N/A' once a node has been scanned.  *)
(***************************************************************************)
C16_DivisionOperandsInRange ==
    pc = "scan" =>
        /\ \A node \in internal_nodes(tree) : \A r \in Ranks : \A taxa \in DOMAIN consistencyDict[r] :
               ReachesDivision(r, taxa) =>
                   LET d == DirectTermsAt(node, r, taxa)
                       c == ComplementTermsAt(node, r, taxa)
                   IN  /\ totals[r][taxa] >= 2
                       /\ d.taxaCount \in 0..totals[r][taxa]
                       /\ c.taxaCount \in 0..totals[r][taxa]
                       /\ d.incongruentTaxa >= 0
                       /\ c.incongruentTaxa >= 0
                       /\ totals[r][taxa] + d.incongruentTaxa >= 2
                       /\ totals[r][taxa] + c.incongruentTaxa >= 2
        /\ Scanned # {} =>
               \A r \in Ranks : \A taxa \in DOMAIN consistencyDict[r] :
                   totals[r][taxa] <= 1 => consistencyDict[r][taxa] = NA

\* the seed node has been scanned: its complementary side was empty for a taxon
\* that reached the division, and another taxon of the tree was set to 'N/A'
C16_Witness ==
    /\ pc = "scan"
    /\ 1 \in Scanned
    /\ \E taxa \in DOMAIN consistencyDict[1] :
           /\ ReachesDivision(1, taxa)
           /\ ComplementTermsAt(1, 1, taxa) = [taxaCount |-> 0, incongruentTaxa |-> 0]
           /\ DirectTermsAt(1, 1, taxa).incongruentTaxa > 0
    /\ \E taxa \in DOMAIN consistencyDict[1] : totals[1][taxa] = 1

\* the position of a field in the header of the summary
ColumnOf(h) == CHOOSE i \in 1..Len(summary[1].header) : summary[1].header[i] = h

(***************************************************************************)
(* C17: every row of the summary has as many fields as the header; the     *)
(* tree id, the two descriptions, the 3 counts, the overall average and    *)
(* the 3 rank averages of a row each stand under the header field that     *)
(* names them, the fields that follow are one per observed taxon per rank, *)
(* and the rows are in the order of the tree identifiers.                  *)
(***************************************************************************)
C17_RowsMatchHeader ==
    summary # <<>> =>
        /\ \A i \in 1..Len(summary[1].rows) :
               LET name == sortedNames(DOMAIN allResults)[i]
                   row == summary[1].rows[i]
               IN  /\ Len(row) = Len(summary[1].header)
                   /\ row[ColumnOf("Tree")] = treeIdOf(name)
                   /\ row[ColumnOf("Short Desc.")] = descDict[treeIdOf(name)][1]
                   /\ row[ColumnOf("Long Desc.")] = descDict[treeIdOf(name)][2]
                   /\ row[ColumnOf("# Taxa")] = taxaCounts[name][1]
                   /\ row[ColumnOf("# Bacteria")] = taxaCounts[name][2]
                   /\ row[ColumnOf("# Archaea")] = taxaCounts[name][3]
                   /\ row[ColumnOf("Avg. Consistency")] = MeanOfRanks(name)
                   /\ row[ColumnOf("Avg. Domain Consistency")] = avgConsistency[name][1]
                   /\ row[ColumnOf("Avg. Phylum Consistency")] = avgConsistency[name][2]
                   /\ row[ColumnOf("Avg. Class Consistency")] = avgConsistency[name][3]
                   /\ LastFields(row, Len(TaxonColumns)) = ExpectedCells(name)
        /\ \A i \in 1..Len(summary[1].rows) : \A j \in 1..Len(summary[1].rows) :
               i < j => StrLess(summary[1].rows[i][1], summary[1].rows[j][1])

\* a marker id read as (family, number), and the pairs of markers that hit the
\* same gene in more than redundancy genomes
IsPfam(m) == m[1] = "P" /\ m[2] = "F"
NumberOf(m) == IF IsPfam(m) THEN int(SubSeq(m, 3, Len(m))) ELSE int(SubSeq(m, 5, Len(m)))

RedundantPairs ==
    { mn \in (DOMAIN gene_count_table) \X (DOMAIN gene_count_table) :
        /\ mn[1] # mn[2]
        /\ Cardinality(shared(gene_count_table[mn[1]], gene_count_table[mn[2]])) > redundancy }

\* of a pair, kept is to be preferred to gone
Preferred(kept, gone) ==
    \/ ~IsPfam(kept) /\ IsPfam(gone)
    \/ IsPfam(kept) = IsPfam(gone) /\ NumberOf(kept) < NumberOf(gone)

(***************************************************************************)
(* C18: every redundant pair the loop resolves has exactly one member      *)
(* marked for removal: the Pfam model if the other is a TIGRFAMs model,    *)
(* and the model with the higher number if both are of the same family;    *)
(* on return every redundant pair has a member in the removed set.         *)
(***************************************************************************)
C18_RedundantPairsResolved ==
    /\ hmms_to_remove = { fout[k][2] : k \in 1..Len(fout) }
    /\ Cardinality(hmms_to_remove) = Len(fout)
    /\ \A k \in 1..Len(fout) :
           /\ <<fout[k][1], fout[k][2]>> \in RedundantPairs
           /\ Preferred(fout[k][1], fout[k][2])
    /\ at = "returned" =>
           \A mn \in RedundantPairs : mn[1] \in hmms_to_remove \/ mn[2] \in hmms_to_remove

=============================================================================
